---- MODULE Spec2Model ----
(***************************************************************************)
(* A model of safemem (src/src/lib.rs): the bounds-checked wrappers        *)
(* `copy` (memmove) and `write_bytes` (memset) over a mutable slice.       *)
(*                                                                         *)
(* A call is a small sequential program: the four assertions of `copy`     *)
(* (lines 32-35), the construction of the two raw pointers (lines 37-38)   *)
(* and the bulk move (line 41) are one step each, so that the order of the *)
(* checks and the place of the move relative to them are visible.  Rust    *)
(* indices are 0-based; the slice is a TLA+ sequence, so slice[i] of the   *)
(* source is slice[i + 1] here.  usize is UsizeBits wide.                  *)
(***************************************************************************)
EXTENDS Integers, Sequences, FiniteSets

\* ------------------------------------------------------------- bounds
\* Width of usize in bits (64 or 32 on real targets, scaled down).
UsizeBits == 4
\* Longest slice of one-byte elements that is enumerated.
MaxLen == 3
\* Element values of the enumerated slices are 0..MaxVal.
MaxVal == 1
\* Indices and lengths are drawn from 0..MaxArg and from the MaxArg + 1
\* largest values of usize.
MaxArg == 3
\* Fill bytes are drawn from 0..MaxFill and the largest byte.
MaxFill == 2

\* ------------------------------------------------------ program constants
\* u8::MAX, the largest fill byte of write_bytes.
MaxByte == 255

RECURSIVE Pow2(_)
Pow2(n) == IF n = 0 THEN 1 ELSE 2 * Pow2(n - 1)

\* usize::MAX
MaxUsize == Pow2(UsizeBits) - 1
\* isize::MAX: no slice of a non-zero-sized element type is longer (in bytes).
MaxIsize == Pow2(UsizeBits - 1) - 1

\* The array of test_bounds_check.
TestArr == <<0, 1, 2, 3, 4, 5>>

ArgSet == (0..MaxArg) \cup ((MaxUsize - MaxArg)..MaxUsize)

ByteSet == (0..MaxFill) \cup {MaxByte}

\* The slices a caller can pass.  A slice of a zero-sized element type may
\* have any length up to usize::MAX and all its elements are the one value
\* of the type (written 0); every other slice has at most isize::MAX
\* elements.
Slices(zero_sized) ==
    IF zero_sized
    THEN {[i \in 1..n |-> 0] : n \in ArgSet}
    ELSE UNION {[1..n -> 0..MaxVal] : n \in {m \in 0..MaxLen : m <= MaxIsize}}
         \cup {TestArr}

VARIABLES
    pc,         \* position in the call: "idle", a check, "ptrs", "move", "fill", "returned", "panicked"
    op,         \* "none", "copy" or "write_bytes"
    slice,      \* the region
    old,        \* the region as it was when the call was made
    zst,        \* TRUE when the element type is zero-sized
    src_idx, dest_idx, len,     \* the arguments of copy
    byte,       \* the argument of write_bytes
    src_ptr, dest_ptr,          \* the raw pointers, as element offsets from the start of the slice
    msg,        \* the panic, [check, text, args], or NoPanic
    evaluated   \* the checks evaluated so far in this call, in order

vars == <<pc, op, slice, old, zst, src_idx, dest_idx, len, byte, src_ptr, dest_ptr, msg, evaluated>>

NoPtr == -1
NoPanic == [check |-> "none", text |-> "", args |-> <<>>]

\* ------------------------------------------------------------- the macros

\* `$idx` ({}) out of bounds. Length: {}
IdxCheck_le(n, name, idx) ==
    IF idx <= n THEN NoPanic
    ELSE [check |-> "idx_check", text |-> name, args |-> <<idx, n>>]

IdxCheck_swapped(n, name, idx) ==
    IF idx < n THEN NoPanic
    ELSE [check |-> "idx_check", text |-> name, args |-> <<n, idx>>]

IdxCheck(n, name, idx) ==
    IF idx < n THEN NoPanic
    ELSE [check |-> "idx_check", text |-> name, args |-> <<idx, n>>]

\* usize::checked_add: None (written -1) when the sum does not fit.
CheckedAdd_wrapping(a, b) == (a + b) % Pow2(UsizeBits)

CheckedAdd(a, b) == IF a + b > MaxUsize THEN -1 ELSE a + b

\* stringify!($start + $len)
SumText(name) == IF name = "src_idx" THEN "src_idx + len" ELSE "dest_idx + len"

LenCheck_lt(n, name, start, l) ==
    LET sum == CheckedAdd(start, l) IN
    IF sum = -1 THEN [check |-> "overflow", text |-> SumText(name), args |-> <<>>]
    ELSE IF sum < n THEN NoPanic
    ELSE [check |-> "len_check", text |-> "", args |-> <<l, start, n>>]

LenCheck_offbyone(n, name, start, l) ==
    LET sum == CheckedAdd(start, l) IN
    IF sum = -1 THEN [check |-> "overflow", text |-> SumText(name), args |-> <<>>]
    ELSE IF sum <= n + 1 THEN NoPanic
    ELSE [check |-> "len_check", text |-> "", args |-> <<l, start, n>>]

\* expect("Overflow evaluating $start + $len"), then
\* Length {} starting at {} is out of bounds (slice len {}).
LenCheck(n, name, start, l) ==
    LET sum == CheckedAdd(start, l) IN
    IF sum = -1 THEN [check |-> "overflow", text |-> SumText(name), args |-> <<>>]
    ELSE IF sum <= n THEN NoPanic
    ELSE [check |-> "len_check", text |-> "", args |-> <<l, start, n>>]

\* The built-in bounds check of slice[idx]:
\* index out of bounds: the len is {} but the index is {}
SliceIndex(n, idx) ==
    IF idx < n THEN NoPanic
    ELSE [check |-> "slice_index", text |-> "", args |-> <<n, idx>>]

\* -------------------------------------------------------- the primitives

\* ptr::copy is memmove: elements are moved one at a time, ascending when
\* the destination is not above the source and descending otherwise.
RECURSIVE CopyFwd(_, _, _, _, _)
CopyFwd(s, src, dest, n, k) ==
    IF k >= n THEN s
    ELSE CopyFwd([s EXCEPT ![dest + k + 1] = s[src + k + 1]], src, dest, n, k + 1)

RECURSIVE CopyBwd(_, _, _, _)
CopyBwd(s, src, dest, k) ==
    IF k <= 0 THEN s
    ELSE CopyBwd([s EXCEPT ![dest + k] = s[src + k]], src, dest, k - 1)

Memmove_ascending(s, src, dest, n) == CopyFwd(s, src, dest, n, 0)

Memmove(s, src, dest, n) ==
    IF dest <= src THEN CopyFwd(s, src, dest, n, 0) ELSE CopyBwd(s, src, dest, n)

\* ptr::write_bytes(ptr, byte, count): the first count bytes become byte.
Memset_short(s, b, count) == [i \in 1..Len(s) |-> IF i < count THEN b ELSE s[i]]

Memset(s, b, count) == [i \in 1..Len(s) |-> IF i <= count THEN b ELSE s[i]]

\* ------------------------------------------------------------------ copy

\* The statements of copy before the pointers are made, in order.
CheckOrder_dest_late == <<"idx_src", "len_src", "idx_dest", "len_dest">>

CheckOrder_len_swapped == <<"idx_src", "idx_dest", "len_dest", "len_src">>

CheckOrder_three == <<"idx_src", "idx_dest", "len_src">>

CheckOrder == <<"idx_src", "idx_dest", "len_src", "len_dest">>

NextStep(name) ==
    LET i == CHOOSE j \in 1..Len(CheckOrder) : CheckOrder[j] = name IN
    IF i < Len(CheckOrder) THEN CheckOrder[i + 1] ELSE "ptrs"

Init ==
    /\ pc = "idle"
    /\ op = "none"
    /\ slice = <<>>
    /\ old = <<>>
    /\ zst = FALSE
    /\ src_idx = 0
    /\ dest_idx = 0
    /\ len = 0
    /\ byte = 0
    /\ src_ptr = NoPtr
    /\ dest_ptr = NoPtr
    /\ msg = NoPanic
    /\ evaluated = <<>>

Enter(z, s, a, b, c) ==
    /\ pc' = CheckOrder[1]
    /\ op' = "copy"
    /\ zst' = z
    /\ slice' = s
    /\ old' = s
    /\ src_idx' = a
    /\ dest_idx' = b
    /\ len' = c
    /\ UNCHANGED <<byte, src_ptr, dest_ptr, msg, evaluated>>

\* A caller calls copy(slice, src_idx, dest_idx, len).
CallCopy ==
    /\ pc = "idle"
    /\ \E z \in BOOLEAN : \E s \in Slices(z) : \E a, b, c \in ArgSet :
        Enter(z, s, a, b, c)

\* test_bounds_check: copy(&mut arr, 2, 1, 7)
TestBoundsCheck ==
    /\ pc = "idle"
    /\ Enter(FALSE, TestArr, 2, 1, 7)

\* One assertion: it passes and control goes on, or it panics with m.
Check(name, m) ==
    /\ evaluated' = Append(evaluated, name)
    /\ IF m = NoPanic
       THEN pc' = NextStep(name) /\ msg' = msg
       ELSE pc' = "panicked" /\ msg' = m
    /\ UNCHANGED <<op, slice, old, zst, src_idx, dest_idx, len, byte, src_ptr, dest_ptr>>

\* idx_check!(slice, src_idx)
IdxCheckSrc ==
    /\ pc = "idx_src"
    /\ Check("idx_src", IdxCheck(Len(slice), "src_idx", src_idx))

\* idx_check!(slice, dest_idx)
IdxCheckDest ==
    /\ pc = "idx_dest"
    /\ Check("idx_dest", IdxCheck(Len(slice), "dest_idx", dest_idx))

\* len_check!(slice, src_idx, len)
LenCheckSrc ==
    /\ pc = "len_src"
    /\ Check("len_src", LenCheck(Len(slice), "src_idx", src_idx, len))

\* len_check!(slice, dest_idx, len)
LenCheckDest ==
    /\ pc = "len_dest"
    /\ Check("len_dest", LenCheck(Len(slice), "dest_idx", dest_idx, len))

\* let src_ptr = &slice[src_idx]; let dest_ptr = &mut slice[dest_idx];
MakePtrs ==
    /\ pc = "ptrs"
    /\ LET n == Len(slice)
           m == IF SliceIndex(n, src_idx) # NoPanic
                THEN SliceIndex(n, src_idx) ELSE SliceIndex(n, dest_idx)
       IN IF m = NoPanic
          THEN /\ src_ptr' = src_idx
               /\ dest_ptr' = dest_idx
               /\ pc' = "move"
               /\ msg' = msg
          ELSE /\ src_ptr' = (IF SliceIndex(n, src_idx) = NoPanic THEN src_idx ELSE NoPtr)
               /\ dest_ptr' = NoPtr
               /\ pc' = "panicked"
               /\ msg' = m
    /\ UNCHANGED <<op, slice, old, zst, src_idx, dest_idx, len, byte, evaluated>>

\* unsafe { ptr::copy(src_ptr, dest_ptr, len) }
\* Outside the slice the move is undefined behaviour: the region may end up
\* with any contents.
PtrCopy ==
    /\ pc = "move"
    /\ IF src_ptr + len <= Len(slice) /\ dest_ptr + len <= Len(slice)
       THEN slice' = Memmove(slice, src_ptr, dest_ptr, len)
       ELSE slice' \in {s \in Slices(zst) : Len(s) = Len(slice)}
    /\ pc' = "returned"
    /\ UNCHANGED <<op, old, zst, src_idx, dest_idx, len, byte, src_ptr, dest_ptr, msg, evaluated>>

\* ----------------------------------------------------------- write_bytes

\* A caller calls write_bytes(slice, byte) on a slice of u8.
CallWriteBytes ==
    /\ pc = "idle"
    /\ \E s \in Slices(FALSE) : \E b \in ByteSet :
        /\ slice' = s
        /\ old' = s
        /\ byte' = b
    /\ pc' = "fill"
    /\ op' = "write_bytes"
    /\ UNCHANGED <<zst, src_idx, dest_idx, len, src_ptr, dest_ptr, msg, evaluated>>

\* unsafe { ptr::write_bytes(slice.as_mut_ptr(), byte, slice.len()) }
WriteBytes ==
    /\ pc = "fill"
    /\ slice' = Memset(slice, byte, Len(slice))
    /\ pc' = "returned"
    /\ UNCHANGED <<op, old, zst, src_idx, dest_idx, len, byte, src_ptr, dest_ptr, msg, evaluated>>

\* The call is over (it returned, or the panic unwound to the caller): the
\* borrow ends and nothing of the call is kept.
Return ==
    /\ pc \in {"returned", "panicked"}
    /\ pc' = "idle"
    /\ op' = "none"
    /\ slice' = <<>>
    /\ old' = <<>>
    /\ zst' = FALSE
    /\ src_idx' = 0
    /\ dest_idx' = 0
    /\ len' = 0
    /\ byte' = 0
    /\ src_ptr' = NoPtr
    /\ dest_ptr' = NoPtr
    /\ msg' = NoPanic
    /\ evaluated' = <<>>

Next ==
    \/ CallCopy
    \/ TestBoundsCheck
    \/ IdxCheckSrc
    \/ IdxCheckDest
    \/ LenCheckSrc
    \/ LenCheckDest
    \/ MakePtrs
    \/ PtrCopy
    \/ CallWriteBytes
    \/ WriteBytes
    \/ Return

Spec == Init /\ [][Next]_vars

\* ------------------------------------------------------------ properties

\* The length of the region.
N == Len(old)

CopyOver == op = "copy" /\ pc \in {"returned", "panicked"}

\* The bounds of copy, in unbounded integer arithmetic.
InBounds ==
    /\ src_idx < N
    /\ dest_idx < N
    /\ src_idx + len <= N
    /\ dest_idx + len <= N

\* The order of the checks, as the documentation numbers them.
Documented == <<"idx_src", "idx_dest", "len_src", "len_dest">>

LastEvaluated == evaluated[Len(evaluated)]

\* Read [src_idx, src_idx + len) of the original region into a temporary
\* buffer, then write the buffer to [dest_idx, dest_idx + len).
ViaTemp ==
    LET tmp == [k \in 1..len |-> old[src_idx + k]] IN
    [i \in 1..N |-> IF dest_idx < i /\ i <= dest_idx + len THEN tmp[i - dest_idx] ELSE old[i]]

\* C1: a copy within the bounds never panics, and when it is over the region
\* is what copying through a temporary buffer gives, whatever the overlap;
\* every element outside [dest_idx, dest_idx + len) has its original value.
C1_OverlapCorrect ==
    (op = "copy" /\ InBounds) =>
        /\ pc # "panicked"
        /\ pc = "returned" =>
            /\ slice = ViaTemp
            /\ \A i \in 1..N : (i <= dest_idx \/ i > dest_idx + len) => slice[i] = old[i]

\* The scenario of the specification: [0,1,2,3,4,5], copy(0, 2, 3), an
\* overlapping copy towards the end, gives [0,1,0,1,2,5].
C1_Witness ==
    /\ op = "copy" /\ pc = "returned"
    /\ old = TestArr /\ src_idx = 0 /\ dest_idx = 2 /\ len = 3
    /\ slice = <<0, 1, 0, 1, 2, 5>>

\* C2: a copy that violates a bound (an index not below N, or a sum above N,
\* overflowing or not) ends in a panic, and the region is at every moment of
\* the call what it was before the call.
C2_AbortsUnmodified ==
    (op = "copy" /\ ~InBounds) =>
        /\ slice = old
        /\ pc # "returned"
        /\ pc \notin {"ptrs", "move"}

\* test_bounds_check: [0,1,2,3,4,5], copy(2, 1, 7) panics, array unchanged.
C2_Witness ==
    /\ op = "copy" /\ pc = "panicked"
    /\ old = TestArr /\ src_idx = 2 /\ dest_idx = 1 /\ len = 7
    /\ slice = TestArr

\* C3: the pointers are made and the bulk move runs only after all four
\* checks have been evaluated, in order, and have passed: wherever a pointer
\* exists or the move is about to run or has run, both ranges lie inside the
\* region and neither sum overflows; the region changes in the move only.
C3_ChecksBeforeMove ==
    /\ (op = "copy" /\ (pc \in {"ptrs", "move", "returned"} \/ src_ptr # NoPtr \/ dest_ptr # NoPtr)) =>
        /\ evaluated = Documented
        /\ InBounds
        /\ src_idx + len <= MaxUsize
        /\ dest_idx + len <= MaxUsize
    /\ (op = "copy" /\ pc # "returned") => slice = old
    /\ pc = "move" => (src_ptr = src_idx /\ dest_ptr = dest_idx)

\* The move is about to run on two distinct, overlapping ranges.
C3_Witness ==
    /\ pc = "move"
    /\ src_ptr # dest_ptr
    /\ len > 1
    /\ src_ptr < dest_ptr /\ dest_ptr < src_ptr + len

Overflows(a, b) == a + b > MaxUsize

\* C4 as stated: with both indices below N, an overflow of either sum ends
\* the call with the overflow failure.
C4_Original ==
    (CopyOver /\ src_idx < N /\ dest_idx < N
        /\ (Overflows(src_idx, len) \/ Overflows(dest_idx, len))) =>
        /\ pc = "panicked"
        /\ msg.check = "overflow"
        /\ slice = old

\* C4, amended: with both indices below N, when a sum overflows the call
\* panics and the region is unmodified, and a wrapped sum is never accepted.
\* The failure is the overflow failure (no "length out of bounds" failure)
\* when src_idx + len overflows, or when dest_idx + len overflows and
\* src_idx + len <= N; when only dest_idx + len overflows and
\* src_idx + len > N it is the length failure of the third check.
C4_OverflowAborts ==
    (CopyOver /\ src_idx < N /\ dest_idx < N
        /\ (Overflows(src_idx, len) \/ Overflows(dest_idx, len))) =>
        /\ pc = "panicked"
        /\ slice = old
        /\ Overflows(src_idx, len) =>
            msg = [check |-> "overflow", text |-> "src_idx + len", args |-> <<>>]
        /\ (~Overflows(src_idx, len) /\ src_idx + len <= N) =>
            msg = [check |-> "overflow", text |-> "dest_idx + len", args |-> <<>>]
        /\ (~Overflows(src_idx, len) /\ src_idx + len > N) =>
            msg = [check |-> "len_check", text |-> "", args |-> <<len, src_idx, N>>]

\* An overflow failure where the sum, wrapped to the width of usize, would
\* have been within the region.
C4_Witness ==
    /\ CopyOver /\ pc = "panicked"
    /\ msg.check = "overflow"
    /\ src_idx < N /\ dest_idx < N
    /\ (src_idx + len) % (MaxUsize + 1) <= N
    /\ slice = old

\* C5: write_bytes never fails and never changes the length of the region;
\* when it is over every element is the byte; on an empty region it does
\* nothing.
C5_Fill ==
    op = "write_bytes" =>
        /\ pc # "panicked"
        /\ msg = NoPanic
        /\ Len(slice) = Len(old)
        /\ pc = "returned" =>
            /\ \A i \in 1..Len(old) : slice[i] = byte
            /\ Len(old) = 0 => slice = old

\* A region of several bytes, not all of them the fill byte, was filled.
C5_Witness ==
    /\ op = "write_bytes" /\ pc = "returned"
    /\ Len(old) >= 2
    /\ \E i, j \in 1..Len(old) : old[i] # old[j]
    /\ byte = MaxByte
    /\ \A i \in 1..Len(slice) : slice[i] = MaxByte

\* C6: with src_idx = dest_idx the four checks are evaluated as for any other
\* call (a violated bound is a panic) and when they pass the call returns with
\* the region unchanged, for every len.
C6_SameIndex ==
    (CopyOver /\ src_idx = dest_idx) =>
        /\ slice = old
        /\ InBounds <=> pc = "returned"
        /\ pc = "returned" => evaluated = Documented
        /\ pc = "panicked" => Len(evaluated) \in 1..Len(Documented)

\* A copy of several elements onto themselves returned.
C6_Witness ==
    /\ CopyOver /\ pc = "returned"
    /\ src_idx = dest_idx
    /\ len > 1
    /\ \E i, j \in 1..N : old[i] # old[j]

\* C7: a copy of no element returns, the region unchanged, exactly when both
\* indices are strictly below N; otherwise it panics on an index check.
C7_ZeroLength ==
    (CopyOver /\ len = 0) =>
        /\ slice = old
        /\ (pc = "returned") <=> (src_idx < N /\ dest_idx < N)
        /\ pc = "panicked" =>
            /\ msg.check = "idx_check"
            /\ LastEvaluated \in {"idx_src", "idx_dest"}

\* A copy of no element from one past the end of a non-empty region panicked.
C7_Witness ==
    /\ CopyOver /\ pc = "panicked"
    /\ len = 0
    /\ N > 0
    /\ (src_idx = N \/ (src_idx < N /\ dest_idx = N))

\* What a diagnostic says of the check that failed.
NamesCheck ==
    \/ msg.check = "idx_check" /\ LastEvaluated = "idx_src" /\ msg.text = "src_idx"
    \/ msg.check = "idx_check" /\ LastEvaluated = "idx_dest" /\ msg.text = "dest_idx"
    \/ msg.check = "overflow" /\ LastEvaluated = "len_src" /\ msg.text = "src_idx + len"
    \/ msg.check = "overflow" /\ LastEvaluated = "len_dest" /\ msg.text = "dest_idx + len"
    \/ msg.check = "len_check" /\ LastEvaluated = "len_src" /\ msg.args[2] = src_idx
    \/ msg.check = "len_check" /\ LastEvaluated = "len_dest" /\ msg.args[2] = dest_idx

Offending ==
    CASE LastEvaluated = "idx_src" -> {src_idx}
      [] LastEvaluated = "idx_dest" -> {dest_idx}
      [] OTHER -> {len}

CarriesValue == \E i \in 1..Len(msg.args) : msg.args[i] \in Offending

CarriesLength == Len(msg.args) > 0 /\ msg.args[Len(msg.args)] = N

\* C8 as stated: every failure identifies the check, and carries the
\* offending value and the region length.
C8_Original ==
    (op = "copy" /\ pc = "panicked") =>
        /\ NamesCheck
        /\ CarriesValue
        /\ CarriesLength

\* C8, amended: every failure identifies the check that failed.  An index
\* failure names the index and carries its value and the region length; a
\* length failure carries len, the start index and the region length; an
\* overflow failure names the sum that overflowed and carries neither a
\* value nor the region length.
C8_Diagnostics ==
    (op = "copy" /\ pc = "panicked") =>
        /\ NamesCheck
        /\ LastEvaluated = "idx_src" => msg.args = <<src_idx, N>>
        /\ LastEvaluated = "idx_dest" => msg.args = <<dest_idx, N>>
        /\ msg.check = "len_check" =>
            \/ LastEvaluated = "len_src" /\ msg.args = <<len, src_idx, N>>
            \/ LastEvaluated = "len_dest" /\ msg.args = <<len, dest_idx, N>>
        /\ msg.check = "overflow" => msg.args = <<>>

\* An overflow failure on a non-empty region.
C8_Witness ==
    /\ op = "copy" /\ pc = "panicked"
    /\ msg.check = "overflow"
    /\ N > 0
    /\ len > 0

Violated(k) ==
    CASE k = 1 -> src_idx >= N
      [] k = 2 -> dest_idx >= N
      [] k = 3 -> src_idx + len > N
      [] k = 4 -> dest_idx + len > N

FirstViolated ==
    CHOOSE k \in 1..4 : Violated(k) /\ \A j \in 1..(k - 1) : ~Violated(j)

\* C9: the checks are evaluated in the documented order and the call stops
\* at the first violated one: the checks evaluated are always a prefix of
\* the documented order, and a panic is that of the lowest-numbered violated
\* check, the last one evaluated.
C9_CheckOrder ==
    op = "copy" =>
        /\ Len(evaluated) <= Len(Documented)
        /\ evaluated = SubSeq(Documented, 1, Len(evaluated))
        /\ pc \in {"idx_src", "idx_dest", "len_src", "len_dest"} =>
            /\ pc = Documented[Len(evaluated) + 1]
            /\ \A j \in 1..Len(evaluated) : ~Violated(j)
        /\ pc = "panicked" =>
            /\ ~InBounds
            /\ Len(evaluated) = FirstViolated
            /\ NamesCheck

\* The example of the claim: src_idx >= N together with dest_idx + len > N
\* (and dest_idx >= N) reports the source index.
C9_Witness ==
    /\ op = "copy" /\ pc = "panicked"
    /\ src_idx >= N /\ dest_idx >= N /\ dest_idx + len > N /\ src_idx + len > N
    /\ msg.check = "idx_check" /\ msg.text = "src_idx"
    /\ evaluated = <<"idx_src">>

\* C10: in a region of at most MaxUsize \div 2 elements, when the fourth
\* check is reached len <= N and dest_idx + len does not overflow, so every
\* overflow failure is that of src_idx + len.
C10_DestOverflowUnreachable ==
    (op = "copy" /\ N <= MaxUsize \div 2) =>
        /\ pc = "len_dest" =>
            /\ len <= N
            /\ dest_idx + len < 2 * N
            /\ ~Overflows(dest_idx, len)
        /\ (pc = "panicked" /\ msg.check = "overflow") =>
            /\ msg.text = "src_idx + len"
            /\ LastEvaluated = "len_src"

\* An overflow failure in a non-empty region of at most MaxUsize \div 2
\* elements whose destination sum overflows as well.
C10_Witness ==
    /\ op = "copy" /\ pc = "panicked"
    /\ N > 0 /\ N <= MaxUsize \div 2
    /\ msg.check = "overflow"
    /\ Overflows(dest_idx, len)

\* Longer regions (of a zero-sized element type) do reach the overflow
\* failure of dest_idx + len.
DestOverflowNeverReported == ~(pc = "panicked" /\ msg.text = "dest_idx + len")

====
